---- MODULE Spec2Model ----
(***************************************************************************)
(* Model of the grant-eligibility route handler                            *)
(* (src/app/api/parseEligibility/route.ts).  Each request slot runs POST   *)
(* once; the slots share the scratch file /tmp/grant.pdf and the           *)
(* rate-limiter store.  Every await of POST that touches shared state or   *)
(* the provider is one action.                                             *)
(***************************************************************************)
EXTENDS Integers, Sequences, FiniteSets, TLC

\* ------------------------------------------------------------------ bounds
MaxPolls == 2
TickSecs == 30

\* ------------------------------------------------------ program constants
RateLimitTokens == 3
RateLimitWindowSecs == 60

\* --------------------------------------------------------------- universes
Reqs == {"r1", "r2"}
SerialReqs == {"r1"}
IPs == {"ipA", "ipB"}
NoIP == "noHeader"
NoFile == "noFile"
NoLink == "unset"

ReqKinds == {"noBody", "badJson", "noLink", "malformed", "notHttps", "https"}

NoResponse == [kind |-> "none"]
StringResponse(text) == [kind |-> "string", status |-> 200, text |-> text]
ErrorResponse(code, msg, status) ==
  [kind |-> "error", status |-> status, code |-> code, errorMsg |-> msg]
EmptyResponse == [kind |-> "empty", status |-> 200]
CriteriaResponse(call) == [kind |-> "criteria", status |-> 200, criteria |-> call]

AssistantErrorMsg == "AI assistant returned something unexpected."
RateLimitedResponse == ErrorResponse("rate_limit_exceeded", "Rate limit exceeded.", 429)
InvalidUrlResponse == ErrorResponse("invalid_pdf_url", "Invalid PDF URL.", 400)
UnsupportedFileResponse == ErrorResponse("unsupported_file_type", "Unsupported file type.", 400)
OpenAIRateLimitResponse ==
  ErrorResponse("openai_rate_limit_exceeded", "OpenAI API rate limit exceeded.", 429)
AssistantErrorResponse == ErrorResponse("assistant_error", AssistantErrorMsg, 500)

ToolCall(id, args) ==
  [id |-> id, type |-> "function",
   function |-> [name |-> "checkEligibility", arguments |-> args]]
ToolCalls == {ToolCall("call_1", "{eligibility:{prime_applicant_types:[Nonprofit]}}"),
              ToolCall("call_2", "{eligibility:{prime_applicant_types:[City government]}}")}
ToolCallLists ==
  {<<c>> : c \in ToolCalls}
  \cup {<<p[1], p[2]>> : p \in {q \in ToolCalls \X ToolCalls : q[1] # q[2]}}

Run(status, err, atype, calls) ==
  [status |-> status, last_error |-> err, action_type |-> atype, tool_calls |-> calls]
NoRun == Run("none", "none", "none", <<>>)
QueuedRun == Run("queued", "none", "none", <<>>)
RunResults ==
  {Run(s, "none", "none", <<>>) :
     s \in {"queued", "in_progress", "cancelling", "cancelled", "completed", "expired"}}
  \cup {Run("failed", e, "none", <<>>) : e \in {"rate_limit_exceeded", "server_error"}}
  \cup {Run("requires_action", "none", t, <<>>) : t \in {"none", "other"}}
  \cup {Run("requires_action", "none", "submit_tool_outputs", l) : l \in ToolCallLists}

VARIABLES pc, link, ip, run, calls, response, uploaded,
          tmpFile, unlinkPending, rlLog, kvConfigured

vars == <<pc, link, ip, run, calls, response, uploaded,
          tmpFile, unlinkPending, rlLog, kvConfigured>>

\* ------------------------------------------------------------------ helpers
Count(s, op) == Cardinality({i \in 1..Len(s) : s[i] = op})

RECURSIVE Aged(_)
Aged(log) ==
  IF log = <<>> THEN <<>>
  ELSE IF Head(log) + TickSecs >= RateLimitWindowSecs THEN Aged(Tail(log))
       ELSE <<Head(log) + TickSecs>> \o Aged(Tail(log))

\* ratelimit.limit(key): success iff fewer than the configured number of
\* requests of the key were admitted within the window.
LimitSuccess(log) == Len(log) < RateLimitTokens

\* The same test without the credentials check of line 197.
StoreConsultedWithoutCredentials(i) == i # NoIP

\* isIPRateLimited reaches ratelimit.limit (line 206) only with a client
\* address (line 195) and both store credentials (line 197).
StoreConsulted(i) == i # NoIP /\ kvConfigured

\* The same check with the negation of `success' (line 207) left out.
IsIPRateLimitedNotNegated(i) ==
  IF i = NoIP THEN FALSE
  ELSE IF kvConfigured THEN LimitSuccess(rlLog[i])
  ELSE FALSE

IsIPRateLimited(i) ==
  IF i = NoIP THEN FALSE
  ELSE IF kvConfigured THEN ~LimitSuccess(rlLog[i])
  ELSE FALSE

\* The same classification when the message test of line 44 does not match.
DownloadOutcomesMessageMismatch(kind) ==
  IF kind \in {"malformed", "notHttps"} THEN {"otherTypeError"}
  ELSE {"finish", "writeError", "networkError"}

\* How the download promise settles for a pdfLink of the given kind.
DownloadOutcomes(kind) ==
  IF kind = "malformed" THEN {"invalidUrl"}
  ELSE IF kind = "notHttps" THEN {"otherTypeError"}
  ELSE {"finish", "writeError", "networkError"}

\* Lines 152-191: the response computed from the final run.
RunResponse(r) ==
  IF r.status = "failed"
  THEN IF r.last_error = "rate_limit_exceeded" THEN OpenAIRateLimitResponse
       ELSE EmptyResponse
  ELSE IF r.status # "requires_action" THEN AssistantErrorResponse
  ELSE IF r.action_type # "submit_tool_outputs" THEN AssistantErrorResponse
  ELSE CriteriaResponse(r.tool_calls[1])

Return(r, resp) ==
  /\ pc' = [pc EXCEPT ![r] = "done"]
  /\ response' = [response EXCEPT ![r] = resp]

Throw(r) ==
  /\ pc' = [pc EXCEPT ![r] = "thrown"]
  /\ UNCHANGED response

Goto(r, label) ==
  /\ pc' = [pc EXCEPT ![r] = label]
  /\ UNCHANGED response

Log(r, ops) == calls' = [calls EXCEPT ![r] = @ \o ops]

\* --------------------------------------------------------------------- Init
Init ==
  /\ pc = [r \in Reqs |-> "idle"]
  /\ link = [r \in Reqs |-> NoLink]
  /\ ip = [r \in Reqs |-> NoIP]
  /\ run = [r \in Reqs |-> NoRun]
  /\ calls = [r \in Reqs |-> <<>>]
  /\ response = [r \in Reqs |-> NoResponse]
  /\ uploaded = [r \in Reqs |-> NoFile]
  /\ tmpFile = NoFile
  /\ unlinkPending = {}
  /\ rlLog = [i \in IPs |-> <<>>]
  /\ kvConfigured \in BOOLEAN

\* ------------------------------------------------------------------ actions
\* A request reaches the route: its body and its x-forwarded-for header.
Arrive(r) ==
  /\ pc[r] = "idle"
  /\ \E kind \in ReqKinds, i \in IPs \cup {NoIP} :
       /\ link' = [link EXCEPT ![r] = kind]
       /\ ip' = [ip EXCEPT ![r] = i]
  /\ Goto(r, "received")
  /\ UNCHANGED <<run, calls, uploaded, tmpFile, unlinkPending, rlLog, kvConfigured>>

\* POST lines 18-33: body checks and the rate check.  userIP is not read
\* after line 26, so the slot drops it.
CheckRequest(r) ==
  /\ pc[r] = "received"
  /\ ip' = [ip EXCEPT ![r] = NoIP]
  /\ IF link[r] = "noBody"
     THEN /\ Return(r, StringResponse("No request body provided."))
          /\ UNCHANGED <<calls, rlLog>>
     ELSE IF link[r] = "badJson"
     THEN /\ Throw(r)
          /\ UNCHANGED <<calls, rlLog>>
     ELSE IF link[r] = "noLink"
     THEN /\ Return(r, StringResponse("No pdf URL provided."))
          /\ UNCHANGED <<calls, rlLog>>
     ELSE /\ calls' = [calls EXCEPT ![r] =
                         IF StoreConsulted(ip[r]) THEN <<"ratelimit.limit">> ELSE <<>>]
          /\ rlLog' = IF StoreConsulted(ip[r]) /\ LimitSuccess(rlLog[ip[r]])
                      THEN [rlLog EXCEPT ![ip[r]] = Append(@, 0)]
                      ELSE rlLog
          /\ IF IsIPRateLimited(ip[r])
             THEN Return(r, RateLimitedResponse)
             ELSE Goto(r, "download")
  /\ UNCHANGED <<link, run, uploaded, tmpFile, unlinkPending, kvConfigured>>

\* POST lines 39-54 with downloadFile (lines 273-296).
Download(r) ==
  /\ pc[r] = "download"
  /\ Log(r, <<"downloadFile">>)
  /\ \E o \in DownloadOutcomes(link[r]) :
       \/ /\ o = "invalidUrl"
          /\ Return(r, InvalidUrlResponse)
          /\ UNCHANGED tmpFile
       \/ /\ o = "otherTypeError"
          /\ Return(r, StringResponse("Upload to OpenAI failed."))
          /\ UNCHANGED tmpFile
       \/ /\ o = "finish"
          /\ tmpFile' = r
          /\ Goto(r, "upload")
       \/ /\ o = "writeError"
          /\ tmpFile' \in {NoFile, tmpFile}
          /\ Return(r, StringResponse("Upload to OpenAI failed."))
       \/ /\ o = "networkError"
          /\ Goto(r, "hung")
          /\ UNCHANGED tmpFile
  /\ UNCHANGED <<link, ip, run, uploaded, unlinkPending, rlLog, kvConfigured>>

\* POST lines 56-63: files.create reading the scratch file, then deleteFile.
Upload(r) ==
  /\ pc[r] = "upload"
  /\ \/ /\ tmpFile # NoFile
        /\ uploaded' = [uploaded EXCEPT ![r] = tmpFile]
        /\ unlinkPending' = unlinkPending \cup {r}
        /\ Log(r, <<"files.create", "deleteFile">>)
        /\ Goto(r, "createAssistant")
     \/ /\ Log(r, <<"files.create">>)
        /\ Throw(r)
        /\ UNCHANGED <<uploaded, unlinkPending>>
  /\ UNCHANGED <<link, ip, run, tmpFile, rlLog, kvConfigured>>

\* deleteFile lines 298-305: the unlink completes later; it removes the file or
\* fails, and its error is dropped.
FsUnlink(r) ==
  /\ r \in unlinkPending
  /\ unlinkPending' = unlinkPending \ {r}
  /\ \/ tmpFile' = NoFile
     \/ UNCHANGED tmpFile
  /\ UNCHANGED <<pc, link, ip, run, calls, response, uploaded, rlLog, kvConfigured>>

\* The error assistants.create rejects with, as the history records it.
AssistantError(o) ==
  CASE o = "unsupportedFile" -> "BadRequestError:unsupported_file"
    [] o = "badRequestOther" -> "BadRequestError:other"
    [] o = "otherError" -> "Error:other"

\* The same catch block without the message-prefix test of line 97.
CreateAssistantCatchAnyBadRequest(o) ==
  IF o \in {"unsupportedFile", "badRequestOther"} THEN UnsupportedFileResponse
  ELSE StringResponse("Assistant creation failed.")

\* Lines 91-107: the response after a failed assistants.create.
CreateAssistantCatch(o) ==
  IF o = "unsupportedFile" THEN UnsupportedFileResponse
  ELSE StringResponse("Assistant creation failed.")

\* POST lines 65-107.
CreateAssistant(r) ==
  /\ pc[r] = "createAssistant"
  /\ \E o \in {"ok", "unsupportedFile", "badRequestOther", "otherError"} :
       IF o = "ok"
       THEN /\ Log(r, <<"assistants.create">>)
            /\ Goto(r, "createThread")
       ELSE /\ Log(r, <<"assistants.create", AssistantError(o)>>)
            /\ Return(r, CreateAssistantCatch(o))
  /\ UNCHANGED <<link, ip, run, uploaded, tmpFile, unlinkPending, rlLog, kvConfigured>>

\* The same step with an automatic retry of a failed threads.create.
CreateThreadRetrying(r) ==
  /\ pc[r] = "createThread"
  /\ Log(r, <<"threads.create">>)
  /\ \/ Goto(r, "createRun")
     \/ Goto(r, "createThread")
  /\ UNCHANGED <<link, ip, run, uploaded, tmpFile, unlinkPending, rlLog, kvConfigured>>

\* POST lines 109-131.
CreateThread(r) ==
  /\ pc[r] = "createThread"
  /\ Log(r, <<"threads.create">>)
  /\ \/ Goto(r, "createRun")
     \/ Throw(r)
  /\ UNCHANGED <<link, ip, run, uploaded, tmpFile, unlinkPending, rlLog, kvConfigured>>

\* The same step when the cleanup does not wait for the run.
CreateRunSkippingPoll(r) ==
  /\ pc[r] = "createRun"
  /\ Log(r, <<"runs.create">>)
  /\ \/ /\ Goto(r, "delFile")
        /\ run' = [run EXCEPT ![r] = QueuedRun]
     \/ /\ Throw(r)
        /\ UNCHANGED run
  /\ UNCHANGED <<link, ip, uploaded, tmpFile, unlinkPending, rlLog, kvConfigured>>

\* POST lines 133-135.
CreateRun(r) ==
  /\ pc[r] = "createRun"
  /\ Log(r, <<"runs.create">>)
  /\ \/ /\ Goto(r, "poll")
        /\ run' = [run EXCEPT ![r] = QueuedRun]
     \/ /\ Throw(r)
        /\ UNCHANGED run
  /\ UNCHANGED <<link, ip, uploaded, tmpFile, unlinkPending, rlLog, kvConfigured>>

\* The same loop when it also keeps polling a queued run.
PollSkippingQueued(r) ==
  /\ pc[r] = "poll"
  /\ calls' = [calls EXCEPT ![r] =
                 IF Count(@, "runs.retrieve") < MaxPolls
                 THEN @ \o <<"sleep", "runs.retrieve">> ELSE @]
  /\ \/ \E res \in RunResults :
          /\ run' = [run EXCEPT ![r] = res]
          /\ IF res.status \in {"in_progress", "queued"}
             THEN Goto(r, "poll") ELSE Goto(r, "delFile")
     \/ /\ Throw(r)
        /\ UNCHANGED run
  /\ UNCHANGED <<link, ip, uploaded, tmpFile, unlinkPending, rlLog, kvConfigured>>

\* POST lines 137-146: one iteration of the poll loop.
Poll(r) ==
  /\ pc[r] = "poll"
  /\ calls' = [calls EXCEPT ![r] =
                 IF Count(@, "runs.retrieve") < MaxPolls
                 THEN @ \o <<"sleep", "runs.retrieve">> ELSE @]
  /\ \/ \E res \in RunResults :
          /\ run' = [run EXCEPT ![r] = res]
          /\ IF res.status = "in_progress" THEN Goto(r, "poll") ELSE Goto(r, "delFile")
     \/ /\ Throw(r)
        /\ UNCHANGED run
  /\ UNCHANGED <<link, ip, uploaded, tmpFile, unlinkPending, rlLog, kvConfigured>>

\* POST line 149.
DelFile(r) ==
  /\ pc[r] = "delFile"
  /\ Log(r, <<"files.del">>)
  /\ \/ Goto(r, "delAssistant")
     \/ Throw(r)
  /\ UNCHANGED <<link, ip, run, uploaded, tmpFile, unlinkPending, rlLog, kvConfigured>>

\* POST lines 150-191.
DelAssistant(r) ==
  /\ pc[r] = "delAssistant"
  /\ Log(r, <<"assistants.del">>)
  /\ \/ Return(r, RunResponse(run[r]))
     \/ Throw(r)
  /\ UNCHANGED <<link, ip, run, uploaded, tmpFile, unlinkPending, rlLog, kvConfigured>>

\* The invocation is over; the slot serves the next request.
Retire(r) ==
  /\ pc[r] \in {"done", "thrown"}
  /\ r \notin unlinkPending
  /\ pc' = [pc EXCEPT ![r] = "idle"]
  /\ link' = [link EXCEPT ![r] = NoLink]
  /\ ip' = [ip EXCEPT ![r] = NoIP]
  /\ run' = [run EXCEPT ![r] = NoRun]
  /\ calls' = [calls EXCEPT ![r] = <<>>]
  /\ response' = [response EXCEPT ![r] = NoResponse]
  /\ uploaded' = [uploaded EXCEPT ![r] = NoFile]
  /\ UNCHANGED <<tmpFile, unlinkPending, rlLog, kvConfigured>>

\* Time passes: admissions age and leave the window.
Tick ==
  /\ \E i \in IPs : rlLog[i] # <<>>
  /\ rlLog' = [i \in IPs |-> Aged(rlLog[i])]
  /\ UNCHANGED <<pc, link, ip, run, calls, response, uploaded,
                 tmpFile, unlinkPending, kvConfigured>>

Handler(r) ==
  \/ Arrive(r)
  \/ CheckRequest(r)
  \/ Download(r)
  \/ Upload(r)
  \/ FsUnlink(r)
  \/ CreateAssistant(r)
  \/ CreateThread(r)
  \/ CreateRun(r)
  \/ Poll(r)
  \/ DelFile(r)
  \/ DelAssistant(r)
  \/ Retire(r)

\* One slot serving requests one after another, in either configuration of
\* the rate limiter.
Next ==
  \/ \E r \in SerialReqs : Handler(r)
  \/ Tick

Spec == Init /\ [][Next]_vars

\* The steps of POST outside the poll loop: each continuation runs once its
\* await settles.  How long the loop runs is the provider's choice, so no
\* fairness is assumed of Poll: polling in_progress for ever is a behaviour.
PostStep(r) ==
  \/ CheckRequest(r)
  \/ Download(r)
  \/ Upload(r)
  \/ CreateAssistant(r)
  \/ CreateThread(r)
  \/ CreateRun(r)
  \/ DelFile(r)
  \/ DelAssistant(r)

SpecFair == Spec /\ \A r \in SerialReqs : WF_vars(PostStep(r))

\* Both slots in flight at once, in the deployment without rate-limiter
\* credentials (the store is never consulted and no admission ages).
InitConcurrent == Init /\ kvConfigured = FALSE

NextConcurrent == \E r \in Reqs : Handler(r)

SpecConcurrent == InitConcurrent /\ [][NextConcurrent]_vars

\* ------------------------------------------------------------ the page
\* JSON.parse of a tool call's arguments: the object it denotes, or a
\* SyntaxError for text that is not JSON.
JSONParse(text) ==
  IF text = "{eligibility:{prime_applicant_types:[Nonprofit]}}"
  THEN [ok |-> TRUE, eligibility |-> <<"prime_applicant_types", <<"Nonprofit">>>>]
  ELSE IF text = "{eligibility:{prime_applicant_types:[City government]}}"
  THEN [ok |-> TRUE, eligibility |-> <<"prime_applicant_types", <<"City government">>>>]
  ELSE [ok |-> FALSE]

\* JSON.stringify(eligibility, null, 2): the indented text of the object.
JSONStringify(value) ==
  IF value = <<"prime_applicant_types", <<"Nonprofit">>>>
  THEN "{ prime_applicant_types: [ Nonprofit ] }"
  ELSE "{ prime_applicant_types: [ City government ] }"

\* What getEligibility has done when it ends: whether it ended by an
\* exception, the last message given to setResult, and isLoading.
PageOutcome(threw, result) == [threw |-> threw, result |-> result, isLoading |-> FALSE]

\* getEligibility (page.tsx lines 80-139) from the point where fetch resolved
\* with response res: setResult("Loading...") and setIsLoading(true) came
\* before, setIsLoading(false) follows the fetch at once.
GetEligibility(res) ==
  IF res.status \notin 200..299
  THEN IF res.code = "openai_rate_limit_exceeded"
       THEN PageOutcome(FALSE, "Looks like we're busy!")
       ELSE IF res.code = "rate_limit_exceeded"
       THEN PageOutcome(FALSE, "You've hit our rate limit!")
       ELSE IF res.code = "invalid_pdf_link"
       THEN PageOutcome(FALSE, "PDF link is invalid")
       ELSE IF res.code = "unsupported_file_type"
       THEN PageOutcome(FALSE, "The file was not downloaded as a PDF by OpenAI.")
       ELSE IF res.errorMsg # ""
       THEN PageOutcome(FALSE, res.errorMsg)
       ELSE PageOutcome(FALSE, "Unknown error occurred, please try again later.")
  ELSE IF res.kind = "empty"
  THEN PageOutcome(TRUE, "Loading...")
  ELSE IF res.kind = "string"
  THEN PageOutcome(TRUE, "Loading...")
  ELSE IF res.criteria.function.arguments = ""
  THEN PageOutcome(FALSE, "The LLM couldn't find the criteria :(")
  ELSE LET JSONCriteria == JSONParse(res.criteria.function.arguments)
       IN  IF ~JSONCriteria.ok THEN PageOutcome(TRUE, "Loading...")
           ELSE PageOutcome(FALSE, JSONStringify(JSONCriteria.eligibility))

\* ------------------------------------------------------- claim vocabulary
ProviderOps == {"files.create", "assistants.create", "threads.create", "runs.create",
                "runs.retrieve", "files.del", "assistants.del"}
FetcherOps == {"downloadFile"}

CountIn(s, ops) == Cardinality({i \in 1..Len(s) : s[i] \in ops})
Called(r, op) == Count(calls[r], op) > 0
LastIndex(s, op) ==
  IF Count(s, op) = 0 THEN 0
  ELSE CHOOSE i \in 1..Len(s) : s[i] = op /\ \A j \in (i+1)..Len(s) : s[j] # op

Exited(r) == pc[r] \in {"done", "thrown"}
FileCreated(r) == uploaded[r] # NoFile
AssistantCreated(r) == Called(r, "threads.create") \/ pc[r] = "createThread"
PollEnded(r) == pc[r] = "delFile" \/ Called(r, "files.del")
\* Run statuses after which the provider no longer works on the run by
\* itself: the terminal ones and requires_action.
SettledStatuses == {"requires_action", "cancelled", "failed", "completed", "expired"}
\* downloadFile was called with a well-formed link and did not resolve.
DownloadFailed(r) ==
  /\ Called(r, "downloadFile")
  /\ link[r] # "malformed"
  /\ pc[r] # "upload"
  /\ ~Called(r, "files.create")
HasLink(r) == link[r] \in {"malformed", "notHttps", "https"}
Taxonomy == {"rate_limit_exceeded", "invalid_pdf_url", "unsupported_file_type",
             "openai_rate_limit_exceeded", "assistant_error"}

\* C1: on every exit of POST (a response or a thrown error), each provider
\* file and each assistant the request created has had its deletion called,
\* and the request created at most one of each.
C1_CreatedResourcesDeletedOnExit ==
  \A r \in Reqs :
    Exited(r) =>
      /\ Count(calls[r], "files.create") <= 1
      /\ Count(calls[r], "assistants.create") <= 1
      /\ FileCreated(r) => Called(r, "files.del")
      /\ AssistantCreated(r) => Called(r, "assistants.del")

\* C2: once the poll loop has ended with a status other than in_progress,
\* the request exits with files.del and assistants.del each called exactly
\* once, in that order, after the last run retrieval.
C2_BothDeletionsExactlyOnce ==
  \A r \in Reqs :
    (Exited(r) /\ PollEnded(r)) =>
      /\ Count(calls[r], "files.del") = 1
      /\ Count(calls[r], "assistants.del") = 1
      /\ LastIndex(calls[r], "runs.retrieve") < LastIndex(calls[r], "files.del")
      /\ LastIndex(calls[r], "files.del") < LastIndex(calls[r], "assistants.del")

\* C3: a request whose final run status is requires_action with action type
\* submit_tool_outputs exits with the 200 response whose criteria is the
\* first element of tool_calls, unchanged.
C3_CriteriaIsFirstToolCall ==
  \A r \in Reqs :
    (Exited(r) /\ PollEnded(r) /\ run[r].status = "requires_action"
       /\ run[r].action_type = "submit_tool_outputs") =>
      /\ response[r].kind = "criteria"
      /\ response[r].status = 200
      /\ response[r].criteria = Head(run[r].tool_calls)

\* C4: a request with a malformed pdfLink that passed the rate check is
\* answered invalid_pdf_url / 400 by the download step and calls no provider
\* operation at any point.
C4_MalformedUrlRejected ==
  \A r \in Reqs :
    (link[r] = "malformed" /\ pc[r] \notin {"idle", "received"}) =>
      /\ CountIn(calls[r], ProviderOps) = 0
      /\ pc[r] \in {"download", "done"}
      /\ (pc[r] = "done" /\ Called(r, "downloadFile")) => response[r] = InvalidUrlResponse
      /\ (pc[r] = "done" /\ ~Called(r, "downloadFile")) => response[r] = RateLimitedResponse

C4_Witness ==
  \E r \in Reqs :
    /\ link[r] = "malformed"
    /\ pc[r] = "done"
    /\ Called(r, "downloadFile")
    /\ response[r] = InvalidUrlResponse

C6_ResponsesWithinTaxonomy ==
  \A r \in Reqs :
    pc[r] = "done" =>
      \/ response[r].kind = "criteria" /\ response[r].status = 200
      \/ /\ response[r].kind = "error"
         /\ response[r].status \in {400, 429, 500}
         /\ response[r].code \in Taxonomy

\* C7: whatever the deletions do, a request whose poll loop ended exits with
\* the response its final run determines, and assistants.del is attempted
\* even when files.del failed.
C7_CleanupErrorsNotSurfaced ==
  \A r \in Reqs :
    (Exited(r) /\ PollEnded(r)) =>
      /\ response[r] = RunResponse(run[r])
      /\ Called(r, "assistants.del")

\* C8: the bytes a request uploads are the bytes it downloaded, and while a
\* request is about to upload, the scratch file holds its own download.
C8_ScratchFileOwnedByRequest ==
  \A r \in Reqs :
    /\ uploaded[r] \in {NoFile, r}
    /\ pc[r] = "upload" => tmpFile = r

\* C9: a request whose final run status is failed with last_error code
\* rate_limit_exceeded exits with openai_rate_limit_exceeded / 429 after both
\* deletions, and no other final run yields that code.
C9_ProviderRateLimitMapped ==
  \A r \in Reqs :
    /\ (Exited(r) /\ PollEnded(r) /\ run[r].status = "failed"
          /\ run[r].last_error = "rate_limit_exceeded")
       => /\ response[r] = OpenAIRateLimitResponse
          /\ Called(r, "files.del") /\ Called(r, "assistants.del")
    /\ response[r] = OpenAIRateLimitResponse
       => run[r].status = "failed" /\ run[r].last_error = "rate_limit_exceeded"

\* C10: a request whose final run status is neither failed nor
\* requires_action, or is requires_action without a submit_tool_outputs
\* action, exits with assistant_error / 500 and no criteria.
C10_UnexpectedRunIsAssistantError ==
  \A r \in Reqs :
    (Exited(r) /\ PollEnded(r)
       /\ \/ run[r].status \notin {"failed", "requires_action"}
          \/ /\ run[r].status = "requires_action"
             /\ run[r].action_type # "submit_tool_outputs")
    => response[r] = AssistantErrorResponse

\* C11: once files.create has been called on the downloaded file, deleteFile
\* is called for the scratch file, whether the upload returned or threw.
C11_LocalFileDeletedAfterUpload ==
  \A r \in Reqs :
    Called(r, "files.create") => Called(r, "deleteFile")

AssistantErrors == {"BadRequestError:unsupported_file", "BadRequestError:other", "Error:other"}
OnceOps == {"ratelimit.limit", "downloadFile", "files.create", "assistants.create",
            "threads.create", "runs.create"}
StepRank(op) ==
  CASE op = "ratelimit.limit" -> 1
    [] op = "downloadFile" -> 2
    [] op = "files.create" -> 3
    [] op = "deleteFile" -> 4
    [] op = "assistants.create" -> 5
    [] op \in AssistantErrors -> 5
    [] op = "threads.create" -> 6
    [] op = "runs.create" -> 7
    [] op \in {"sleep", "runs.retrieve"} -> 8
    [] op = "files.del" -> 9
    [] op = "assistants.del" -> 10

\* C12: the calls of one request follow the order rate check, download,
\* upload, assistant creation, thread creation, run creation, polling,
\* file deletion, assistant deletion; each of the first six is made at most
\* once; a response exists only at the exit; and once the request has exited
\* (returned or thrown) it makes no further call and its response is final.
C12_StepsInOrderOnceEach ==
  /\ [](\A r \in Reqs :
          /\ \A i \in 1..Len(calls[r]) : \A j \in (i+1)..Len(calls[r]) :
                /\ StepRank(calls[r][i]) <= StepRank(calls[r][j])
                /\ calls[r][i] \in OnceOps => calls[r][i] # calls[r][j]
          /\ response[r] # NoResponse => pc[r] = "done")
  /\ [][\A r \in Reqs :
          (Exited(r) /\ pc'[r] # "idle")
          => /\ pc'[r] = pc[r]
             /\ calls'[r] = calls[r]
             /\ response'[r] = response[r]]_vars

C12_Witness ==
  \E r \in Reqs :
    /\ pc[r] = "done"
    /\ response[r].kind = "criteria"
    /\ calls[r] = <<"ratelimit.limit", "downloadFile", "files.create", "deleteFile",
                    "assistants.create", "threads.create", "runs.create",
                    "sleep", "runs.retrieve", "sleep", "runs.retrieve",
                    "files.del", "assistants.del">>

\* C16: a request whose assistants.create is rejected because the file could
\* not be indexed is answered unsupported_file_type / 400 and creates no
\* thread and no run; no other outcome yields that response.
C16_UnsupportedFileMapped ==
  \A r \in Reqs :
    /\ Called(r, "BadRequestError:unsupported_file")
       => /\ pc[r] = "done"
          /\ response[r] = UnsupportedFileResponse
          /\ ~Called(r, "threads.create")
          /\ ~Called(r, "runs.create")
    /\ response[r] = UnsupportedFileResponse
       => Called(r, "BadRequestError:unsupported_file")

C16_Witness ==
  \E r \in Reqs :
    /\ pc[r] = "done"
    /\ Called(r, "BadRequestError:unsupported_file")
    /\ response[r] = UnsupportedFileResponse

\* C13: every retrieval follows a sleep; the request stays in the poll loop
\* exactly while the retrieved status is in_progress and leaves it for the
\* cleanup at the first other status (or by a thrown retrieval); it has no
\* response while it polls; and if no provider call throws and the request
\* does not poll forever, a polling request eventually returns a response.
C13_PollUntilNotInProgress ==
  /\ [][\A r \in Reqs :
          pc[r] = "poll" =>
            \/ pc'[r] = "poll" /\ (run'[r] = run[r] \/ run'[r].status = "in_progress")
            \/ pc'[r] = "delFile" /\ run'[r].status # "in_progress"
            \/ pc'[r] = "thrown" /\ run'[r] = run[r]]_vars
  /\ [](\A r \in Reqs :
          /\ pc[r] = "poll" => response[r] = NoResponse
          /\ \A i \in 1..Len(calls[r]) :
                calls[r][i] = "runs.retrieve" => (i > 1 /\ calls[r][i-1] = "sleep"))
  /\ \A r \in Reqs :
       ([](pc[r] # "thrown") /\ []<>(pc[r] # "poll"))
       => [](pc[r] = "poll" => <>(pc[r] = "done"))

C13_Witness ==
  \E r \in Reqs :
    /\ pc[r] = "done"
    /\ Count(calls[r], "runs.retrieve") >= 2
    /\ Called(r, "assistants.del")
    /\ response[r] # NoResponse

\* C14: once the request has left the poll loop (cleanup started or done), the
\* latest retrieved status is terminal or requires_action, never a pending one
\* such as queued or cancelling.
C14_PollEndsOnlyOnSettledRun ==
  \A r \in Reqs :
    PollEnded(r) => run[r].status \in SettledStatuses

\* C15: after a download that failed for a reason other than a malformed URL
\* the request has returned the generic failure response and has called no
\* provider operation; it is not left waiting on the download.
C15_DownloadFailureAnswered ==
  \A r \in Reqs :
    DownloadFailed(r)
    => /\ pc[r] = "done"
       /\ response[r] = StringResponse("Upload to OpenAI failed.")
       /\ CountIn(calls[r], ProviderOps) = 0

\* C17: a request without x-forwarded-for, or one checked while the store
\* credentials are missing, is not answered rate_limit_exceeded and its check
\* neither calls ratelimit.limit nor changes the store, whatever the store
\* holds; a rate_limit_exceeded response always follows a call of the store.
C17_NoHeaderOrNoStoreNeverLimited ==
  /\ [][\A r \in Reqs :
          (pc[r] = "received" /\ pc'[r] # "received" /\ (ip[r] = NoIP \/ ~kvConfigured))
          => /\ response'[r] # RateLimitedResponse
             /\ ~Called(r, "ratelimit.limit")'
             /\ rlLog' = rlLog]_vars
  /\ [](\A r \in Reqs :
          /\ response[r] = RateLimitedResponse => Called(r, "ratelimit.limit")
          /\ Called(r, "ratelimit.limit") => kvConfigured)

\* A request without the header has passed the rate check, the store
\* untouched, while some address has used up its window.
C17_Witness ==
  \E r \in Reqs :
    /\ pc[r] = "download"
    /\ calls[r] = <<>>
    /\ kvConfigured
    /\ \E i \in IPs : Len(rlLog[i]) = RateLimitTokens

\* C18: files.del and assistants.del are called only after a retrieval whose
\* result was a status other than in_progress, every retrieval precedes both
\* deletions in the request's history, and once a deletion has been called
\* the request neither polls again nor retrieves the run.
C18_DeletionsOnlyAfterPolling ==
  /\ [](\A r \in Reqs :
          (Called(r, "files.del") \/ Called(r, "assistants.del"))
          => /\ Called(r, "runs.retrieve")
             /\ run[r].status # "in_progress"
             /\ pc[r] # "poll"
             /\ \A i \in 1..Len(calls[r]) : \A j \in 1..Len(calls[r]) :
                   (calls[r][i] = "runs.retrieve"
                      /\ calls[r][j] \in {"files.del", "assistants.del"}) => i < j)
  /\ [][\A r \in Reqs :
          (PollEnded(r) /\ pc'[r] # "idle")
          => /\ pc'[r] # "poll"
             /\ run'[r] = run[r]
             /\ Count(calls'[r], "runs.retrieve") = Count(calls[r], "runs.retrieve")]_vars

C18_Witness ==
  \E r \in Reqs :
    /\ Called(r, "files.del")
    /\ Called(r, "assistants.del")
    /\ Called(r, "runs.retrieve")
    /\ run[r].status = "completed"

\* C19: for every response POST has returned, getEligibility ends without an
\* exception, with a result message other than the initial "Loading...",
\* and with isLoading false.
C19_PageHandlesEveryResponse ==
  \A r \in Reqs :
    pc[r] = "done"
    => /\ ~GetEligibility(response[r]).threw
       /\ GetEligibility(response[r]).result # "Loading..."
       /\ ~GetEligibility(response[r]).isLoading
====
